---- MODULE Spec2Model ----
(***************************************************************************)
(* A model of fq's lint command (src/commands/lint.rs) and of the FASTQ    *)
(* record's name normalisation (src/fastq/record.rs).                      *)
(*                                                                         *)
(* A lint run is a state machine: lint() opens the sources, then either    *)
(* validate_single or validate_pair loops over the records; one action is  *)
(* one loop iteration (or one way of leaving the loop).  Everything the    *)
(* run does that can be observed (reads, resets, inserts, validator calls, *)
(* reports) is appended to `trace` in program order.                       *)
(***************************************************************************)
EXTENDS Integers, Sequences, FiniteSets, TLC

VARIABLES
    lint_mode,            \* "Panic" or "Log"                  (lint.rs:222)
    r2_present,           \* TRUE iff an r2-src was given       (lint.rs:225)
    single_level,         \* single-read validation level       (lint.rs:227)
    paired_level,         \* paired-read validation level       (lint.rs:231)
    disabled_validators,  \* set of disabled validator codes    (lint.rs:235)
    file1,                \* the records stored at r1-src
    file2,                \* the records stored at r2-src
    pc,                   \* where the run is
    outcome,              \* "running", "ok", "fatal" or "panic"
    exit_code,            \* None while running, else Some(status)
    fatal_msg,            \* context of the fatal error, "" if none
    pos1,                 \* records consumed from reader_1 / reader
    pos2,                 \* records consumed from reader_2
    pos,                  \* records consumed from the pass-2 reader
    opens1,               \* how many times r1-src has been opened
    b,                    \* record buffer of read 1            (lint.rs:136)
    d,                    \* record buffer of read 2            (lint.rs:137)
    record,               \* record buffer of the single scan and of pass 2
    record_counter,       \* the current loop's record counter
    names,                \* the duplicate-name validator's multiset
    trace,                \* everything done so far, in program order
    arg,                  \* argument of a function applied on its own
    ret                   \* its result

vars == << lint_mode, r2_present, single_level, paired_level,
           disabled_validators, file1, file2, pc, outcome, exit_code,
           fatal_msg, pos1, pos2, pos, opens1, b, d, record, record_counter,
           names, trace, arg, ret >>

cfgVars == << lint_mode, r2_present, single_level, paired_level,
              disabled_validators, file1, file2 >>

fnVars == << arg, ret >>

(***************************************************************************)
(* Bounds.                                                                 *)
(***************************************************************************)
MaxRecs == 3

MaxNameLen == 4

MaxCounter == 3

MaxCol == 2

(***************************************************************************)
(* Option<T>: None is the empty sequence, Some(x) a sequence of one.       *)
(***************************************************************************)
None == << >>

Some(x) == << x >>

IsSome(o) == Len(o) = 1

Unwrap(o) == o[1]

(***************************************************************************)
(* Record (record.rs).  The four lines are sequences of one-byte strings.  *)
(***************************************************************************)
Rec(n, s, p, q) ==
    [name |-> n, sequence |-> s, plus_line |-> p, quality_scores |-> q]

\* Record::default(): four empty vectors.
RecordDefault == Rec(<< >>, << >>, << >>, << >>)

\* The closure of reset: |&b| b == b'/' || b == b' '.
IsSeparator(byte) == byte = "/" \/ byte = " "

\* self.name.iter().rev().position(pred): the number of bytes, counted from
\* the end, that precede the first match of the reversed iteration.
RECURSIVE RevPositionFrom(_, _)
RevPositionFrom(name, i) ==
    IF i >= Len(name) THEN None
    ELSE IF IsSeparator(name[Len(name) - i]) THEN Some(i)
    ELSE RevPositionFrom(name, i + 1)

\* A slip of reset: position() without rev(), the index of the FIRST match.
RECURSIVE FwdPositionFrom(_, _)
FwdPositionFrom(name, i) ==
    IF i >= Len(name) THEN None
    ELSE IF IsSeparator(name[i + 1]) THEN Some(Len(name) - i - 1)
    ELSE FwdPositionFrom(name, i + 1)

FirstPosition(name) == FwdPositionFrom(name, 0)

RevPosition(name) == RevPositionFrom(name, 0)

\* Vec::truncate(len): keeps the first len elements.
Truncate(v, len) == SubSeq(v, 1, len)

\* Record::reset.
reset(r) ==
    LET p == RevPosition(r.name)
    IN  IF IsSome(p)
        THEN LET len == Len(r.name)
             IN  [r EXCEPT !.name = Truncate(r.name, len - Unwrap(p) - 1)]
        ELSE r

(***************************************************************************)
(* build_error_message (lint.rs:17-34).  Strings are TLA+ strings, `\o` is *)
(* push_str and ToString is the Display of an integer.                     *)
(***************************************************************************)
\* validators::Error::new(code, name, message, line_type, col_no).
Error(code, name, message, line_type, col_no) ==
    [code |-> code, name |-> name, message |-> message,
     line_type |-> line_type, col_no |-> col_no]

\* `error.line_type as usize`: the discriminant of LineType.
LineTypeOffset(line_type) ==
    CASE line_type = "Name" -> 0
      [] line_type = "Sequence" -> 1
      [] line_type = "PlusLine" -> 2
      [] line_type = "QualityScore" -> 3

LineTypes == {"Name", "Sequence", "PlusLine", "QualityScore"}

\* A slip of line_no: the record counter is not scaled by the record's lines.
line_no_unscaled(error, counter) ==
    counter + LineTypeOffset(error.line_type) + 1

line_no(error, counter) ==
    counter * 4 + LineTypeOffset(error.line_type) + 1

\* A slip of build_error_message: the column segment is pushed always.
build_error_message_always_col(error, pathname, counter) ==
    LET m1 == pathname \o ":" \o ToString(line_no(error, counter)) \o ":"
        m2 == m1 \o (IF IsSome(error.col_no)
                     THEN ToString(Unwrap(error.col_no)) ELSE "0") \o ":"
    IN  m2 \o " [" \o error.code \o "] " \o error.name \o ": " \o error.message

build_error_message(error, pathname, counter) ==
    LET m1 == pathname \o ":" \o ToString(line_no(error, counter)) \o ":"
        m2 == IF IsSome(error.col_no)
              THEN m1 \o ToString(Unwrap(error.col_no)) \o ":"
              ELSE m1
    IN  m2 \o " [" \o error.code \o "] " \o error.name \o ": " \o error.message

(***************************************************************************)
(* The inputs of a run.                                                    *)
(***************************************************************************)
\* matches.value_of("r1-src") and matches.value_of("r2-src").
R1Src == "r1.fastq"

R2Src == "r2.fastq"

\* The records a primary source may hold: a well-formed mate, a record with
\* a bad plus line and a short sequence whose name normalises to the first
\* one's, and a record with a bare name and a short quality line.
Stream1Records ==
    { Rec(<<"@", "A", "/", "1">>, <<"A", "C">>, <<"+">>, <<"F", "Q">>),
      Rec(<<"@", "A", " ", "1">>, <<"A">>, <<"-">>, <<"F", "Q">>),
      Rec(<<"@", "B">>, <<"A", "C">>, <<"+">>, <<"F">>) }

\* The records a secondary source may hold: the mate of A, and a mate of B
\* with a bad plus line and a short sequence.
Stream2Records ==
    { Rec(<<"@", "A", "/", "2">>, <<"A", "C">>, <<"+">>, <<"F", "Q">>),
      Rec(<<"@", "B", "/", "2">>, <<"A">>, <<"-">>, <<"F", "Q">>) }

\* All sequences over S of length at most n.
SeqsUpTo(S, n) == UNION { [1..k -> S] : k \in 0..n }

(***************************************************************************)
(* The validators (crate::validators).                                     *)
(***************************************************************************)
\* ValidationLevel: Low < Medium < High.
LevelRank(level) ==
    CASE level = "Low" -> 0
      [] level = "Medium" -> 1
      [] level = "High" -> 2

\* The catalog of single-read validators, in declaration order.
SingleCatalog ==
    << [code |-> "S001", name |-> "PlusLineValidator", level |-> "Low"],
       [code |-> "S005", name |-> "ConsistentSeqQualValidator",
        level |-> "High"] >>

\* The catalog of paired-read validators, in declaration order.
PairedCatalog ==
    << [code |-> "P001", name |-> "NamesValidator", level |-> "High"] >>

\* DuplicateNameValidator::code() and ::name().
DuplicateCode == "S007"

DuplicateName == "DuplicateNameValidator"

IsActive(v, ceiling, disabled) ==
    LevelRank(v.level) <= LevelRank(ceiling) /\ v.code \notin disabled

\* validators::filter_validators(single_level, paired_level, disabled):
\* paired_ceiling is an Option.
filter_validators(single_ceiling, paired_ceiling, disabled) ==
    << SelectSeq(SingleCatalog,
                 LAMBDA v : IsActive(v, single_ceiling, disabled)),
       IF IsSome(paired_ceiling)
       THEN SelectSeq(PairedCatalog,
                      LAMBDA v : IsActive(v, Unwrap(paired_ceiling), disabled))
       ELSE << >> >>

\* SingleReadValidator::validate(&record): None is Ok(()), Some(e) is Err(e).
validate_single_read(v, r) ==
    CASE v.code = "S001" ->
            IF Len(r.plus_line) > 0 /\ r.plus_line[1] = "+" THEN None
            ELSE Some(Error(v.code, v.name, "Does not start with a '+'",
                            "PlusLine", Some(1)))
      [] v.code = "S005" ->
            IF Len(r.sequence) = Len(r.quality_scores) THEN None
            ELSE Some(Error(v.code, v.name,
                            "Sequence and quality lengths differ",
                            "Sequence", None))

\* PairedReadValidator::validate(&b, &d).
validate_paired_read(v, r, s) ==
    IF r.name = s.name THEN None
    ELSE Some(Error(v.code, v.name, "Names do not match", "Name", None))

\* DuplicateNameValidator::new(): an empty multiset (name -> count).
DuplicateNameValidatorNew == [n \in {} |-> 0]

\* DuplicateNameValidator::insert(&record).
duplicate_insert(set, r) ==
    IF r.name \in DOMAIN set
    THEN [set EXCEPT ![r.name] = @ + 1]
    ELSE [n \in DOMAIN set \cup {r.name} |->
            IF n = r.name THEN 1 ELSE set[n]]

\* DuplicateNameValidator::validate(&record).
duplicate_validate(set, r) ==
    IF r.name \in DOMAIN set /\ set[r.name] > 1
    THEN Some(Error(DuplicateCode, DuplicateName, "Duplicate found",
                    "Name", None))
    ELSE None

(***************************************************************************)
(* What a run does, as events.                                             *)
(***************************************************************************)
Ev(op, on, code, res, name, err, path, counter, msg) ==
    [op |-> op, pass |-> 0, on |-> on, code |-> code, res |-> res,
     name |-> name, err |-> err, path |-> path, rc |-> counter, msg |-> msg]

EvOpen(on, res) == Ev("open", on, "", res, << >>, None, "", 0, "")

EvRead(on, res, name) == Ev("read", on, "", res, name, None, "", 0, "")

EvReset(on, name) == Ev("reset", on, "", "", name, None, "", 0, "")

EvInsert(name) == Ev("insert", "r1", DuplicateCode, "", name, None, "", 0, "")

EvValidate(on, code, name, result) ==
    Ev("validate", on, code, IF IsSome(result) THEN "err" ELSE "ok", name,
       result, "", 0, "")

EvReport(sink, error, pathname, counter, message) ==
    Ev("report", "", error.code, sink, << >>, Some(error), pathname, counter,
       message)

\* The events of evs, marked as belonging to pass p.
InPass(evs, p) == [i \in 1..Len(evs) |-> [evs[i] EXCEPT !.pass = p]]

\* What a piece of code did: its events, and whether it ended the process.
Did(evs, exited) == [ev |-> evs, exited |-> exited]

\* Sequential composition: the second piece runs unless the first exited.
Then(first, second) ==
    IF first.exited THEN first
    ELSE Did(first.ev \o second.ev, second.exited)

(***************************************************************************)
(* The error reporter (lint.rs:36-61).                                     *)
(***************************************************************************)
\* exit_with_validation_error: eprintln!, then process::exit(1).
exit_with_validation_error(error, pathname, counter) ==
    Did(<< EvReport("stderr", error, pathname, counter,
                    build_error_message(error, pathname, counter)) >>, TRUE)

\* A slip of log_validation_error: the message is built and not emitted.
log_validation_error_dropped(error, pathname, counter) ==
    Did(<< >>, FALSE)

\* log_validation_error: error!, then return.
log_validation_error(error, pathname, counter) ==
    Did(<< EvReport("log", error, pathname, counter,
                    build_error_message(error, pathname, counter)) >>, FALSE)

\* A slip of the failure policy: every error ends the process, whatever the
\* mode.
handle_validation_error_exit_only(mode, error, pathname, counter) ==
    exit_with_validation_error(error, pathname, counter)

\* A slip of the failure policy: every error is logged, whatever the mode.
handle_validation_error_log_only(mode, error, pathname, counter) ==
    log_validation_error(error, pathname, counter)

handle_validation_error(mode, error, pathname, counter) ==
    IF mode = "Panic"
    THEN exit_with_validation_error(error, pathname, counter)
    ELSE log_validation_error(error, pathname, counter)

\* result.unwrap_or_else(|e| handle_validation_error(lint_mode, e, src, rc)).
unwrap_or_handle(result, mode, pathname, counter) ==
    IF IsSome(result)
    THEN handle_validation_error(mode, Unwrap(result), pathname, counter)
    ELSE Did(<< >>, FALSE)

(***************************************************************************)
(* The reader (crate::fastq).                                              *)
(***************************************************************************)
\* The bytes of one record: its four lines and their line feeds.
RecordBytes(r) ==
    Len(r.name) + Len(r.sequence) + Len(r.plus_line) + Len(r.quality_scores)
    + 4

\* Reader::read_record(&mut record) of a reader that has consumed `position`
\* records of `file`: the buffer is cleared and refilled, the result is the
\* number of bytes read, 0 at the end of the stream.
read_record(file, position) ==
    IF position < Len(file)
    THEN [len |-> RecordBytes(file[position + 1]),
          record |-> file[position + 1], position |-> position + 1]
    ELSE [len |-> 0, record |-> RecordDefault, position |-> position]

\* The event of a read_record call that returned Ok.
ReadEvent(on, rd) ==
    EvRead(on, IF rd.len = 0 THEN "eof" ELSE "rec", rd.record.name)

(***************************************************************************)
(* The validator loops of validate_single and validate_pair.               *)
(***************************************************************************)
\* A slip of the loop of lines 89-93: it stops after the first validator.
single_loop_first_only(vs, r, mode, pathname, counter) ==
    IF vs = << >> THEN Did(<< >>, FALSE)
    ELSE LET v == Head(vs)
             result == validate_single_read(v, r)
         IN  Then(Did(<< EvValidate("r1", v.code, r.name, result) >>, FALSE),
                  unwrap_or_handle(result, mode, pathname, counter))

\* lint.rs:89-93.
RECURSIVE single_loop(_, _, _, _, _)
single_loop(vs, r, mode, pathname, counter) ==
    IF vs = << >> THEN Did(<< >>, FALSE)
    ELSE LET v == Head(vs)
             result == validate_single_read(v, r)
         IN  Then(Did(<< EvValidate("r1", v.code, r.name, result) >>, FALSE),
             Then(unwrap_or_handle(result, mode, pathname, counter),
                  single_loop(Tail(vs), r, mode, pathname, counter)))

\* The loop of lines 89-93 run on the record of stream `on`.
RECURSIVE single_loop_on(_, _, _, _, _, _)
single_loop_on(on, vs, r, mode, pathname, counter) ==
    IF vs = << >> THEN Did(<< >>, FALSE)
    ELSE LET v == Head(vs)
             result == validate_single_read(v, r)
         IN  Then(Did(<< EvValidate(on, v.code, r.name, result) >>, FALSE),
             Then(unwrap_or_handle(result, mode, pathname, counter),
                  single_loop_on(on, Tail(vs), r, mode, pathname, counter)))

\* A variant of lines 166-174: two loops, all validators on read 1 and
\* then all validators on read 2.
pair_single_loop_read1_first(vs, r, s, mode, counter) ==
    Then(single_loop_on("r1", vs, r, mode, R1Src, counter),
         single_loop_on("r2", vs, s, mode, R2Src, counter))

\* A slip of lines 166-174: the two source paths are exchanged.
RECURSIVE pair_single_loop_paths_swapped(_, _, _, _, _)
pair_single_loop_paths_swapped(vs, r, s, mode, counter) ==
    IF vs = << >> THEN Did(<< >>, FALSE)
    ELSE LET v == Head(vs)
             result_b == validate_single_read(v, r)
             result_d == validate_single_read(v, s)
         IN  Then(Did(<< EvValidate("r1", v.code, r.name, result_b) >>, FALSE),
             Then(unwrap_or_handle(result_b, mode, R2Src, counter),
             Then(Did(<< EvValidate("r2", v.code, s.name, result_d) >>, FALSE),
             Then(unwrap_or_handle(result_d, mode, R1Src, counter),
                  pair_single_loop_paths_swapped(Tail(vs), r, s, mode,
                                                 counter)))))

\* lint.rs:166-174.
RECURSIVE pair_single_loop(_, _, _, _, _)
pair_single_loop(vs, r, s, mode, counter) ==
    IF vs = << >> THEN Did(<< >>, FALSE)
    ELSE LET v == Head(vs)
             result_b == validate_single_read(v, r)
             result_d == validate_single_read(v, s)
         IN  Then(Did(<< EvValidate("r1", v.code, r.name, result_b) >>, FALSE),
             Then(unwrap_or_handle(result_b, mode, R1Src, counter),
             Then(Did(<< EvValidate("r2", v.code, s.name, result_d) >>, FALSE),
             Then(unwrap_or_handle(result_d, mode, R2Src, counter),
                  pair_single_loop(Tail(vs), r, s, mode, counter)))))

\* lint.rs:176-180.
RECURSIVE pair_paired_loop(_, _, _, _, _)
pair_paired_loop(vs, r, s, mode, counter) ==
    IF vs = << >> THEN Did(<< >>, FALSE)
    ELSE LET v == Head(vs)
             result == validate_paired_read(v, r, s)
         IN  Then(Did(<< EvValidate("pair", v.code, r.name, result) >>, FALSE),
             Then(unwrap_or_handle(result, mode, R1Src, counter),
                  pair_paired_loop(Tail(vs), r, s, mode, counter)))

\* lint.rs:209-211.
pass2_validate(set, r, mode, counter) ==
    LET result == duplicate_validate(set, r)
    IN  Then(Did(<< EvValidate("r1", DuplicateCode, r.name, result) >>, FALSE),
             unwrap_or_handle(result, mode, R1Src, counter))

\* A slip of the desync check: both branches name the streams the same way.
pair_lengths_same_message(r1_len, r2_len) ==
    IF r1_len = 0 /\ r2_len > 0
    THEN [kind |-> "desync",
          msg |-> R1Src \o " unexpectedly ended before " \o R2Src]
    ELSE IF r2_len = 0 /\ r1_len > 0
    THEN [kind |-> "desync",
          msg |-> R1Src \o " unexpectedly ended before " \o R2Src]
    ELSE IF r1_len = 0 /\ r2_len = 0
    THEN [kind |-> "break", msg |-> ""]
    ELSE [kind |-> "continue", msg |-> ""]

\* lint.rs:149-157: what the two lengths make the loop do.
pair_lengths(r1_len, r2_len) ==
    IF r1_len = 0 /\ r2_len > 0
    THEN [kind |-> "desync",
          msg |-> R1Src \o " unexpectedly ended before " \o R2Src]
    ELSE IF r2_len = 0 /\ r1_len > 0
    THEN [kind |-> "desync",
          msg |-> R2Src \o " unexpectedly ended before " \o R1Src]
    ELSE IF r1_len = 0 /\ r2_len = 0
    THEN [kind |-> "break", msg |-> ""]
    ELSE [kind |-> "continue", msg |-> ""]

\* with_context(|| format!("Could not read record from file: {}", src)).
read_context(src) == "Could not read record from file: " \o src

\* with_context(|| format!("Could not open file: {}", src)).
open_context(src) == "Could not open file: " \o src

\* lint.rs:70-71 and 114-118: the active validators of this run.
single_read_validators ==
    filter_validators(single_level,
                      IF r2_present THEN Some(paired_level) ELSE None,
                      disabled_validators)[1]

paired_read_validators ==
    filter_validators(single_level,
                      IF r2_present THEN Some(paired_level) ELSE None,
                      disabled_validators)[2]

\* A slip of line 124: the disabled set is not consulted.
use_special_validator_always == TRUE

\* lint.rs:124.
use_special_validator == DuplicateCode \notin disabled_validators

(***************************************************************************)
(* The lint run.                                                           *)
(***************************************************************************)
\* The level ceilings and disabled sets a run is started with.
Configs ==
    { [single |-> "High", paired |-> "High", disabled |-> {}],
      [single |-> "High", paired |-> "High", disabled |-> {DuplicateCode}],
      [single |-> "Low", paired |-> "Low", disabled |-> {}] }

\* The command line has been parsed; nothing is open yet.
Init ==
    /\ lint_mode \in {"Panic", "Log"}
    /\ r2_present \in BOOLEAN
    /\ \E c \in Configs :
          /\ single_level = c.single
          /\ paired_level = c.paired
          /\ disabled_validators = c.disabled
    /\ file1 \in SeqsUpTo(Stream1Records, MaxRecs)
    /\ file2 \in IF r2_present THEN SeqsUpTo(Stream2Records, MaxRecs)
                 ELSE {<< >>}
    /\ pc = "lint"
    /\ outcome = "running"
    /\ exit_code = None
    /\ fatal_msg = ""
    /\ pos1 = 0
    /\ pos2 = 0
    /\ pos = 0
    /\ opens1 = 0
    /\ b = RecordDefault
    /\ d = RecordDefault
    /\ record = RecordDefault
    /\ record_counter = 0
    /\ names = DuplicateNameValidatorNew
    /\ trace = << >>
    /\ arg = None
    /\ ret = None

\* The run ends: Ok(()) leaves main with status 0, an Err with status 1,
\* process::exit(1) with status 1.
End(how, status, msg) ==
    /\ pc' = "done"
    /\ outcome' = how
    /\ exit_code' = Some(status)
    /\ fatal_msg' = msg

Continue(next) ==
    /\ pc' = next
    /\ UNCHANGED << outcome, exit_code, fatal_msg >>

\* lint.rs:221-277 up to the call of validate_single or validate_pair, and
\* the locals these set up before their loop (lines 75-76, 120, 136-138).
Lint ==
    /\ pc = "lint"
    /\ opens1' = 1
    /\ trace' = trace \o (IF r2_present
                          THEN << EvOpen("r1", "ok"), EvOpen("r2", "ok") >>
                          ELSE << EvOpen("r1", "ok") >>)
    /\ names' = DuplicateNameValidatorNew
    /\ b' = RecordDefault
    /\ d' = RecordDefault
    /\ record' = RecordDefault
    /\ record_counter' = 0
    /\ Continue(IF r2_present THEN "pass1" ELSE "single")
    /\ UNCHANGED << cfgVars, pos1, pos2, pos, fnVars >>

\* lint.rs:243-244 or 249-250: fastq::open fails.
LintOpenFail ==
    /\ pc = "lint"
    /\ \E s \in (IF r2_present THEN {1, 2} ELSE {1}) :
          IF s = 1
          THEN /\ trace' = trace \o << EvOpen("r1", "ioerr") >>
               /\ opens1' = opens1
               /\ End("fatal", 1, open_context(R1Src))
          ELSE /\ trace' = trace \o << EvOpen("r1", "ok"), EvOpen("r2", "ioerr") >>
               /\ opens1' = 1
               /\ End("fatal", 1, open_context(R2Src))
    /\ UNCHANGED << cfgVars, pos1, pos2, pos, b, d, record, record_counter,
                    names, fnVars >>

\* A slip of validate_single: the names are collected as in validate_pair.
ValidateSingleIterInserting ==
    /\ pc = "single"
    /\ LET rd == read_record(file1, pos1)
           r == reset(rd.record)
           run == single_loop(single_read_validators, r, lint_mode, R1Src,
                              record_counter)
       IN  /\ rd.len /= 0
           /\ pos1' = rd.position
           /\ record' = r
           /\ names' = duplicate_insert(names, r)
           /\ trace' = trace \o InPass(<< ReadEvent("r1", rd),
                                          EvReset("r1", r.name),
                                          EvInsert(r.name) >> \o run.ev, 1)
           /\ IF run.exited
              THEN /\ End("panic", 1, "")
                   /\ record_counter' = record_counter
              ELSE /\ Continue("single")
                   /\ record_counter' = record_counter + 1
    /\ UNCHANGED << cfgVars, pos2, pos, opens1, b, d, fnVars >>

\* lint.rs:78-96, one iteration that reads a record.
ValidateSingleIter ==
    /\ pc = "single"
    /\ LET rd == read_record(file1, pos1)
           r == reset(rd.record)
           run == single_loop(single_read_validators, r, lint_mode, R1Src,
                              record_counter)
       IN  /\ rd.len /= 0
           /\ pos1' = rd.position
           /\ record' = r
           /\ trace' = trace \o InPass(<< ReadEvent("r1", rd),
                                          EvReset("r1", r.name) >> \o run.ev, 1)
           /\ IF run.exited
              THEN /\ End("panic", 1, "")
                   /\ record_counter' = record_counter
              ELSE /\ Continue("single")
                   /\ record_counter' = record_counter + 1
    /\ UNCHANGED << cfgVars, pos2, pos, opens1, b, d, names, fnVars >>

\* A slip of lines 83-85: the break is missing, and the loop reads the
\* ended stream again and again.
ValidateSingleEndNoBreak ==
    /\ pc = "single"
    /\ read_record(file1, pos1).len = 0
    /\ UNCHANGED vars

\* lint.rs:83-85 and 98-100: zero bytes read, the loop breaks, Ok(()).
ValidateSingleEnd ==
    /\ pc = "single"
    /\ LET rd == read_record(file1, pos1)
       IN  /\ rd.len = 0
           /\ record' = rd.record
           /\ trace' = trace \o InPass(<< ReadEvent("r1", rd) >>, 1)
    /\ End("ok", 0, "")
    /\ UNCHANGED << cfgVars, pos1, pos2, pos, opens1, b, d, record_counter,
                    names, fnVars >>

\* lint.rs:79-81: read_record returns an Err.
ValidateSingleReadFail ==
    /\ pc = "single"
    /\ trace' = trace \o InPass(<< EvRead("r1", "ioerr", << >>) >>, 1)
    /\ End("fatal", 1, read_context(R1Src))
    /\ UNCHANGED << cfgVars, pos1, pos2, pos, opens1, b, d, record,
                    record_counter, names, fnVars >>

\* A slip of lines 162-164: read 2 is inserted in place of read 1.
pass1_body_inserts_read2(set, r, s, mode, counter) ==
    LET insert == IF use_special_validator
                  THEN Did(<< EvInsert(s.name) >>, FALSE)
                  ELSE Did(<< >>, FALSE)
        run == Then(Did(<< EvReset("r1", r.name), EvReset("r2", s.name) >>,
                        FALSE),
               Then(insert,
               Then(pair_single_loop(single_read_validators, r, s, mode,
                                     counter),
                    pair_paired_loop(paired_read_validators, r, s, mode,
                                     counter))))
    IN  [ev |-> run.ev, exited |-> run.exited,
         names |-> IF use_special_validator THEN duplicate_insert(set, s)
                   ELSE set]

\* lint.rs:159-182: the body of the pass-1 loop once both reads returned
\* a record.  The result carries the multiset after the insert.
pass1_body(set, r, s, mode, counter) ==
    LET insert == IF use_special_validator
                  THEN Did(<< EvInsert(r.name) >>, FALSE)
                  ELSE Did(<< >>, FALSE)
        run == Then(Did(<< EvReset("r1", r.name), EvReset("r2", s.name) >>,
                        FALSE),
               Then(insert,
               Then(pair_single_loop(single_read_validators, r, s, mode,
                                     counter),
                    pair_paired_loop(paired_read_validators, r, s, mode,
                                     counter))))
    IN  [ev |-> run.ev, exited |-> run.exited,
         names |-> IF use_special_validator THEN duplicate_insert(set, r)
                   ELSE set]

\* A slip of lines 145-147: the read of stream 2 leaves its reader where it
\* was, so the same mate is read again in the next iteration.
ValidatePairIterRereadingMate ==
    /\ pc = "pass1"
    /\ LET rd1 == read_record(file1, pos1)
           rd2 == read_record(file2, pos2)
           r == reset(rd1.record)
           s == reset(rd2.record)
           run == pass1_body(names, r, s, lint_mode, record_counter)
       IN  /\ pair_lengths(rd1.len, rd2.len).kind = "continue"
           /\ pos1' = rd1.position
           /\ pos2' = pos2
           /\ b' = r
           /\ d' = s
           /\ names' = run.names
           /\ trace' = trace \o InPass(<< ReadEvent("r1", rd1),
                                          ReadEvent("r2", rd2) >> \o run.ev, 1)
           /\ IF run.exited
              THEN /\ End("panic", 1, "")
                   /\ record_counter' = record_counter
              ELSE /\ Continue("pass1")
                   /\ record_counter' = record_counter + 1
    /\ UNCHANGED << cfgVars, pos, opens1, record, fnVars >>

\* lint.rs:140-183, one iteration in which both streams return a record.
ValidatePairIter ==
    /\ pc = "pass1"
    /\ LET rd1 == read_record(file1, pos1)
           rd2 == read_record(file2, pos2)
           r == reset(rd1.record)
           s == reset(rd2.record)
           run == pass1_body(names, r, s, lint_mode, record_counter)
       IN  /\ pair_lengths(rd1.len, rd2.len).kind = "continue"
           /\ pos1' = rd1.position
           /\ pos2' = rd2.position
           /\ b' = r
           /\ d' = s
           /\ names' = run.names
           /\ trace' = trace \o InPass(<< ReadEvent("r1", rd1),
                                          ReadEvent("r2", rd2) >> \o run.ev, 1)
           /\ IF run.exited
              THEN /\ End("panic", 1, "")
                   /\ record_counter' = record_counter
              ELSE /\ Continue("pass1")
                   /\ record_counter' = record_counter + 1
    /\ UNCHANGED << cfgVars, pos, opens1, record, fnVars >>

\* lint.rs:149-154: one stream ended before the other.
ValidatePairDesync ==
    /\ pc = "pass1"
    /\ LET rd1 == read_record(file1, pos1)
           rd2 == read_record(file2, pos2)
           what == pair_lengths(rd1.len, rd2.len)
       IN  /\ what.kind = "desync"
           /\ pos1' = rd1.position
           /\ pos2' = rd2.position
           /\ b' = rd1.record
           /\ d' = rd2.record
           /\ trace' = trace \o InPass(<< ReadEvent("r1", rd1),
                                          ReadEvent("r2", rd2) >>, 1)
           /\ End("fatal", 1, what.msg)
    /\ UNCHANGED << cfgVars, pos, opens1, record, record_counter, names,
                    fnVars >>

\* lint.rs:155-156 and 185-190: both streams ended; the loop breaks, and the
\* function returns Ok(()) unless the duplicate-name validator is in use.
ValidatePairEnd ==
    /\ pc = "pass1"
    /\ LET rd1 == read_record(file1, pos1)
           rd2 == read_record(file2, pos2)
       IN  /\ pair_lengths(rd1.len, rd2.len).kind = "break"
           /\ b' = rd1.record
           /\ d' = rd2.record
           /\ trace' = trace \o InPass(<< ReadEvent("r1", rd1),
                                          ReadEvent("r2", rd2) >>, 1)
    /\ IF ~use_special_validator
       THEN End("ok", 0, "")
       ELSE Continue("pass2_open")
    /\ UNCHANGED << cfgVars, pos1, pos2, pos, opens1, record, record_counter,
                    names, fnVars >>

\* lint.rs:141-147: a read_record of the pass-1 loop returns an Err.  The
\* read of stream 2 is attempted only after the read of stream 1 returned.
ValidatePairReadFail ==
    /\ pc = "pass1"
    /\ \E s \in {1, 2} :
          IF s = 1
          THEN /\ trace' = trace \o InPass(<< EvRead("r1", "ioerr", << >>) >>, 1)
               /\ UNCHANGED << pos1, b >>
               /\ End("fatal", 1, read_context(R1Src))
          ELSE LET rd1 == read_record(file1, pos1)
               IN  /\ trace' = trace \o InPass(<< ReadEvent("r1", rd1),
                                          EvRead("r2", "ioerr", << >>) >>, 1)
                   /\ pos1' = rd1.position
                   /\ b' = rd1.record
                   /\ End("fatal", 1, read_context(R2Src))
    /\ UNCHANGED << cfgVars, pos2, pos, opens1, d, record, record_counter,
                    names, fnVars >>

\* A slip of lines 195-196: pass 2 goes on with pass 1's record counter.
Pass2OpenKeepingCounter ==
    /\ pc = "pass2_open"
    /\ opens1' = opens1 + 1
    /\ pos' = 0
    /\ record' = RecordDefault
    /\ trace' = trace \o InPass(<< EvOpen("r1", "ok") >>, 2)
    /\ Continue("pass2")
    /\ UNCHANGED << cfgVars, pos1, pos2, b, d, record_counter, names, fnVars >>

\* lint.rs:192-196: the primary source is opened again for pass 2.
Pass2Open ==
    /\ pc = "pass2_open"
    /\ opens1' = opens1 + 1
    /\ pos' = 0
    /\ record' = RecordDefault
    /\ record_counter' = 0
    /\ trace' = trace \o InPass(<< EvOpen("r1", "ok") >>, 2)
    /\ Continue("pass2")
    /\ UNCHANGED << cfgVars, pos1, pos2, b, d, names, fnVars >>

\* lint.rs:192-193: fastq::open fails.
Pass2OpenFail ==
    /\ pc = "pass2_open"
    /\ trace' = trace \o InPass(<< EvOpen("r1", "ioerr") >>, 2)
    /\ End("fatal", 1, open_context(R1Src))
    /\ UNCHANGED << cfgVars, pos1, pos2, pos, opens1, b, d, record,
                    record_counter, names, fnVars >>

\* A slip of line 207: the record is validated as it was read.
Pass2IterUnnormalized ==
    /\ pc = "pass2"
    /\ LET rd == read_record(file1, pos)
           r == rd.record
           run == pass2_validate(names, r, lint_mode, record_counter)
       IN  /\ rd.len /= 0
           /\ pos' = rd.position
           /\ record' = r
           /\ trace' = trace \o InPass(<< ReadEvent("r1", rd) >> \o run.ev, 2)
           /\ IF run.exited
              THEN /\ End("panic", 1, "")
                   /\ record_counter' = record_counter
              ELSE /\ Continue("pass2")
                   /\ record_counter' = record_counter + 1
    /\ UNCHANGED << cfgVars, pos1, pos2, opens1, b, d, names, fnVars >>

\* A slip of pass 2: the name is inserted again before it is looked up.
Pass2IterInserting ==
    /\ pc = "pass2"
    /\ LET rd == read_record(file1, pos)
           r == reset(rd.record)
           run == pass2_validate(names, r, lint_mode, record_counter)
       IN  /\ rd.len /= 0
           /\ pos' = rd.position
           /\ record' = r
           /\ names' = duplicate_insert(names, r)
           /\ trace' = trace \o InPass(<< ReadEvent("r1", rd),
                                          EvReset("r1", r.name),
                                          EvInsert(r.name) >> \o run.ev, 2)
           /\ IF run.exited
              THEN /\ End("panic", 1, "")
                   /\ record_counter' = record_counter
              ELSE /\ Continue("pass2")
                   /\ record_counter' = record_counter + 1
    /\ UNCHANGED << cfgVars, pos1, pos2, opens1, b, d, fnVars >>

\* lint.rs:198-214, one iteration that reads a record.
Pass2Iter ==
    /\ pc = "pass2"
    /\ LET rd == read_record(file1, pos)
           r == reset(rd.record)
           run == pass2_validate(names, r, lint_mode, record_counter)
       IN  /\ rd.len /= 0
           /\ pos' = rd.position
           /\ record' = r
           /\ trace' = trace \o InPass(<< ReadEvent("r1", rd),
                                          EvReset("r1", r.name) >> \o run.ev, 2)
           /\ IF run.exited
              THEN /\ End("panic", 1, "")
                   /\ record_counter' = record_counter
              ELSE /\ Continue("pass2")
                   /\ record_counter' = record_counter + 1
    /\ UNCHANGED << cfgVars, pos1, pos2, opens1, b, d, names, fnVars >>

\* lint.rs:203-205 and 216-218: zero bytes read, the loop breaks, Ok(()).
Pass2End ==
    /\ pc = "pass2"
    /\ LET rd == read_record(file1, pos)
       IN  /\ rd.len = 0
           /\ record' = rd.record
           /\ trace' = trace \o InPass(<< ReadEvent("r1", rd) >>, 2)
    /\ End("ok", 0, "")
    /\ UNCHANGED << cfgVars, pos1, pos2, pos, opens1, b, d, record_counter,
                    names, fnVars >>

\* lint.rs:199-201: read_record returns an Err.
Pass2ReadFail ==
    /\ pc = "pass2"
    /\ trace' = trace \o InPass(<< EvRead("r1", "ioerr", << >>) >>, 2)
    /\ End("fatal", 1, read_context(R1Src))
    /\ UNCHANGED << cfgVars, pos1, pos2, pos, opens1, b, d, record,
                    record_counter, names, fnVars >>

Next ==
    \/ Lint
    \/ LintOpenFail
    \/ ValidateSingleIter
    \/ ValidateSingleEnd
    \/ ValidateSingleReadFail
    \/ ValidatePairIter
    \/ ValidatePairDesync
    \/ ValidatePairEnd
    \/ ValidatePairReadFail
    \/ Pass2Open
    \/ Pass2OpenFail
    \/ Pass2Iter
    \/ Pass2End
    \/ Pass2ReadFail

Spec == Init /\ [][Next]_vars

(***************************************************************************)
(* Record::reset and build_error_message applied on their own, to inputs   *)
(* drawn from bounded sets.  No lint run is in progress.                   *)
(***************************************************************************)
NoRun ==
    /\ lint_mode = "Log"
    /\ r2_present = FALSE
    /\ single_level = "High"
    /\ paired_level = "High"
    /\ disabled_validators = {}
    /\ file1 = << >>
    /\ file2 = << >>
    /\ outcome = "running"
    /\ exit_code = None
    /\ fatal_msg = ""
    /\ pos1 = 0
    /\ pos2 = 0
    /\ pos = 0
    /\ opens1 = 0
    /\ b = RecordDefault
    /\ d = RecordDefault
    /\ record = RecordDefault
    /\ record_counter = 0
    /\ names = DuplicateNameValidatorNew
    /\ trace = << >>

runVars == << cfgVars, outcome, exit_code, fatal_msg, pos1, pos2, pos, opens1,
              b, d, record, record_counter, names, trace >>

\* The bytes names are made of: a letter and the two separators.
NameBytes == {"a", "/", " "}

\* The names of the examples in the documentation of reset.
FqlibSlash == <<"@", "f", "q", "l", "i", "b", "/", "1">>

FqlibSpace == <<"@", "f", "q", "l", "i", "b", " ", "1">>

Fqlib == <<"@", "f", "q", "l", "i", "b">>

\* The other three lines, with and without separator bytes in them.
OtherLines ==
    { << << >>, << >>, << >> >>,
      << <<"A", "/">>, <<"+", " ", "a">>, <<"/", " ">> >> }

ResetInputs ==
    { Rec(n, o[1], o[2], o[3]) :
        n \in SeqsUpTo(NameBytes, MaxNameLen) \cup {FqlibSlash, FqlibSpace},
        o \in OtherLines }

InitReset ==
    /\ NoRun
    /\ pc = "fn_reset"
    /\ arg \in ResetInputs
    /\ ret = None

\* r.reset() on the record arg; ret is the record afterwards.
ResetCall ==
    /\ pc = "fn_reset"
    /\ ret' = reset(arg)
    /\ pc' = "fn_done"
    /\ UNCHANGED << runVars, arg >>

NextReset == ResetCall

SpecReset == InitReset /\ [][NextReset]_vars

\* The error of the tests of lint.rs (lines 287-293 and 303-309), with
\* every line type and a bounded choice of columns.
MessageColumns == {None, Some(76)} \cup { Some(c) : c \in 1..MaxCol }

MessageInputs ==
    { [error |-> Error("S002", "AlphabetValidator", "Invalid character: m",
                       lt, col),
       pathname |-> path, counter |-> n] :
        lt \in LineTypes, col \in MessageColumns,
        path \in {"in.fastq", "r2.fq.gz"}, n \in 0..MaxCounter }

InitMessage ==
    /\ NoRun
    /\ pc = "fn_message"
    /\ arg \in MessageInputs
    /\ ret = None

\* build_error_message(error, pathname, record_counter) on arg.
MessageCall ==
    /\ pc = "fn_message"
    /\ ret' = build_error_message(arg.error, arg.pathname, arg.counter)
    /\ pc' = "fn_done"
    /\ UNCHANGED << runVars, arg >>

NextMessage == MessageCall

SpecMessage == InitMessage /\ [][NextMessage]_vars

\* Two errors, each with the record counter it is reported with: the line
\* number of the diagnostic is computed for both.
LineInputs ==
    LET one == { [error |-> Error("S002", "AlphabetValidator",
                                  "Invalid character: m", lt, None),
                  counter |-> n] : lt \in LineTypes, n \in 0..MaxCounter }
    IN  one \X one

InitLine ==
    /\ NoRun
    /\ pc = "fn_line"
    /\ arg \in LineInputs
    /\ ret = None

\* The line_no of build_error_message (lines 20-21) on both errors of arg.
LineCall ==
    /\ pc = "fn_line"
    /\ ret' = << line_no(arg[1].error, arg[1].counter),
                 line_no(arg[2].error, arg[2].counter) >>
    /\ pc' = "fn_done"
    /\ UNCHANGED << runVars, arg >>

NextLine == LineCall

SpecLine == InitLine /\ [][NextLine]_vars

(***************************************************************************)
(* Properties.                                                             *)
(***************************************************************************)
\* The indices of name that hold a '/' or a space.
SeparatorsOf(name) == { i \in 1..Len(name) : name[i] \in {"/", " "} }

SetMax(S) == CHOOSE m \in S : \A x \in S : x <= m

\* The prefix of name that ends just before its last '/' or space; name
\* itself when it holds neither.
NormalizedName(name) ==
    IF SeparatorsOf(name) = {} THEN name
    ELSE SubSeq(name, 1, SetMax(SeparatorsOf(name)) - 1)

\* C9: Record.reset replaces the name by its prefix ending just before the
\* last occurrence of '/' or space, whichever occurs last, leaves a name
\* with neither byte unchanged, and never modifies sequence, plus_line or
\* quality_scores; '@fqlib/1' and '@fqlib 1' both become '@fqlib'.
C9_ResetTrimsAtLastSeparator ==
    pc = "fn_done" =>
        /\ ret.name = NormalizedName(arg.name)
        /\ ret.sequence = arg.sequence
        /\ ret.plus_line = arg.plus_line
        /\ ret.quality_scores = arg.quality_scores
        /\ (SeparatorsOf(arg.name) = {} => ret = arg)
        /\ (arg.name \in {FqlibSlash, FqlibSpace} => ret.name = Fqlib)

\* C9's case: a name holding both separators, and other lines holding
\* separators too, has been reset to a shorter, non-empty name.
C9_Witness ==
    /\ pc = "fn_done"
    /\ \E i, j \in SeparatorsOf(arg.name) :
          i < j /\ arg.name[i] = " " /\ arg.name[j] = "/"
    /\ SeparatorsOf(arg.sequence) /= {}
    /\ Len(ret.name) = 2
    /\ Len(ret.name) < Len(arg.name)

\* The message the error reporter's format prescribes for a line number.
MessageHead(pathname, line) == pathname \o ":" \o ToString(line) \o ":"

MessageTail(error) ==
    " [" \o error.code \o "] " \o error.name \o ": " \o error.message

\* The line number the format prescribes.
FormatLine(counter, line_type) ==
    counter * 4
    + (CASE line_type = "Name" -> 0
         [] line_type = "Sequence" -> 1
         [] line_type = "PlusLine" -> 2
         [] line_type = "QualityScore" -> 3)
    + 1

\* C8: build_error_message produces exactly
\* '<pathname>:<line_no>:<col_no>: [<code>] <name>: <message>' when col_no
\* is set and '<pathname>:<line_no>: [<code>] <name>: <message>' when it is
\* not; the column segment is there iff col_no is set and nothing else
\* differs (the two literal strings of the tests of lint.rs included).
C8_MessageFormat ==
    pc = "fn_done" =>
        LET e == arg.error
            head == MessageHead(arg.pathname,
                                FormatLine(arg.counter, e.line_type))
            without == head \o MessageTail(e)
        IN  /\ IsSome(e.col_no) =>
                  /\ ret = head \o ToString(Unwrap(e.col_no)) \o ":"
                               \o MessageTail(e)
                  /\ Len(ret) = Len(without)
                                + Len(ToString(Unwrap(e.col_no))) + 1
            /\ ~IsSome(e.col_no) => ret = without
            /\ (/\ arg.pathname = "in.fastq"
                /\ arg.counter = 2
                /\ e.line_type = "Sequence") =>
                  ret = IF e.col_no = Some(76)
                        THEN "in.fastq:10:76: [S002] AlphabetValidator: Invalid character: m"
                        ELSE IF e.col_no = None
                        THEN "in.fastq:10: [S002] AlphabetValidator: Invalid character: m"
                        ELSE ret

\* C8's case: the message of an error without a column has been built, for
\* the input of test_build_error_message_with_no_col_no.
C8_Witness ==
    /\ pc = "fn_done"
    /\ arg.error.col_no = None
    /\ arg.pathname = "in.fastq"
    /\ arg.counter = 2
    /\ arg.error.line_type = "Sequence"
    /\ ret = "in.fastq:10: [S002] AlphabetValidator: Invalid character: m"

(***************************************************************************)
(* Properties of a lint run, read off the trace.                           *)
(***************************************************************************)
Positions == 1..Len(trace)

Reports == { i \in Positions : trace[i].op = "report" }

Validations == { i \in Positions : trace[i].op = "validate" }

Inserts == { i \in Positions : trace[i].op = "insert" }

FailedValidations == { i \in Validations : trace[i].res = "err" }

DuplicateReports == { i \in Reports : trace[i].code = "S007" }

\* The trace ends with the two reads of a pass-1 iteration, which returned
\* res1 for stream 1 and res2 for stream 2.
EndsWithReads(res1, res2) ==
    /\ Len(trace) >= 2
    /\ LET e1 == trace[Len(trace) - 1]
           e2 == trace[Len(trace)]
       IN  /\ e1.op = "read" /\ e1.on = "r1" /\ e1.res = res1 /\ e1.pass = 1
           /\ e2.op = "read" /\ e2.on = "r2" /\ e2.res = res2 /\ e2.pass = 1

\* The trace ends with a failed read or a failed open.
EndsWithIoError ==
    /\ Len(trace) >= 1
    /\ trace[Len(trace)].op \in {"read", "open"}
    /\ trace[Len(trace)].res = "ioerr"

\* Position i of the trace is the pair of reads (i, i + 1) of an iteration
\* in which stream 1 ended and stream 2 did not, or the other way round.
DesyncAt(i, res1, res2) ==
    /\ i + 1 <= Len(trace)
    /\ trace[i].op = "read" /\ trace[i].on = "r1" /\ trace[i].pass = 1
    /\ trace[i].res = res1
    /\ trace[i + 1].op = "read" /\ trace[i + 1].on = "r2"
    /\ trace[i + 1].res = res2

\* The number of names in the multiset, with repetitions.
RECURSIVE SumOver(_, _)
SumOver(f, S) ==
    IF S = {} THEN 0
    ELSE LET x == CHOOSE y \in S : TRUE
         IN  f[x] + SumOver(f, S \ {x})

NamesInserted == SumOver(names, DOMAIN names)

Smaller(m, n) == IF m <= n THEN m ELSE n

\* C1: in a paired scan, in any lint mode, when stream 1 returns 0 bytes
\* while stream 2 returns a record the run ends with a fatal error that
\* names stream 1's path as ended before stream 2's (and symmetrically); no
\* validator is invoked and no name inserted for the unmatched record.
C1_DesyncIsFatal ==
    \A i \in Positions :
        \A ends \in { <<"eof", "rec", R1Src, R2Src>>,
                      <<"rec", "eof", R2Src, R1Src>> } :
            DesyncAt(i, ends[1], ends[2]) =>
                /\ i + 1 = Len(trace)
                /\ pc = "done"
                /\ outcome = "fatal"
                /\ exit_code = Some(1)
                /\ fatal_msg = ends[3] \o " unexpectedly ended before "
                                       \o ends[4]
                /\ record_counter = Smaller(Len(file1), Len(file2))
                /\ Cardinality(Inserts) =
                      (IF use_special_validator THEN record_counter ELSE 0)
                /\ NamesInserted = Cardinality(Inserts)
                /\ opens1 = 1

\* C1's case: in Panic mode, after one complete pair, stream 2 ended while
\* stream 1 still had a record, and the run has ended.
C1_Witness ==
    /\ lint_mode = "Panic"
    /\ EndsWithReads("rec", "eof")
    /\ record_counter = 1
    /\ NamesInserted = 1
    /\ fatal_msg = "r2.fastq unexpectedly ended before r1.fastq"

\* How often the normalized name of record k (from 1) occurs in file1.
Occurrences(k) ==
    Cardinality({ j \in 1..Len(file1) :
        NormalizedName(file1[j].name) = NormalizedName(file1[k].name) })

\* The 0-based indices, among the first n records of file1, of the records
\* whose normalized name occurs more than once in file1.
DuplicatedAmong(n) == { k \in 0..(n - 1) : Occurrences(k + 1) > 1 }

\* C2: in a paired scan in Log mode with the duplicate-name validator in
\* use, pass 2 reports a duplicate-name error for a record of the primary
\* stream iff its normalized name occurs more than once in the primary
\* stream; every occurrence is flagged once, at its own position, and a
\* record whose name occurs once is never flagged.
C2_DuplicatesFlagged ==
    (lint_mode = "Log" /\ r2_present /\ use_special_validator) =>
        /\ { trace[i].rc : i \in DuplicateReports } =
              (IF opens1 = 2 THEN DuplicatedAmong(record_counter) ELSE {})
        /\ \A i, j \in DuplicateReports :
              /\ trace[i].rc = trace[j].rc => i = j
              /\ trace[i].pass = 2
              /\ trace[i].path = R1Src
        /\ (outcome = "ok" => opens1 = 2 /\ record_counter = Len(file1))

\* C2's case: the primary stream holds names A, B, A; the run is over and
\* records 0 and 2 are flagged, record 1 is not.
C2_Witness ==
    /\ lint_mode = "Log" /\ r2_present /\ use_special_validator
    /\ outcome = "ok"
    /\ Len(file1) = 3
    /\ NormalizedName(file1[1].name) = <<"@", "A">>
    /\ NormalizedName(file1[2].name) = <<"@", "B">>
    /\ NormalizedName(file1[3].name) = <<"@", "A">>
    /\ file1[1].name /= file1[3].name
    /\ { trace[i].rc : i \in DuplicateReports } = {0, 2}

\* C3: in Panic mode the first content-validation error of either pass
\* ends the run at once with a non-zero status: the error is reported and
\* nothing follows it (no validator call, no read), and when it occurred in
\* pass 1, pass 2 never starts and the primary source is not opened again.
C3_PanicStopsAtFirstError ==
    lint_mode = "Panic" =>
        /\ \A i \in FailedValidations :
              /\ i + 1 = Len(trace)
              /\ trace[i + 1].op = "report"
              /\ trace[i + 1].err = trace[i].err
              /\ trace[i + 1].res = "stderr"
        /\ \A i \in Reports :
              /\ i = Len(trace)
              /\ i - 1 \in FailedValidations
              /\ pc = "done"
              /\ outcome = "panic"
              /\ exit_code = Some(1)
              /\ trace[i - 1].pass = 1 =>
                    /\ opens1 = 1
                    /\ \A j \in Positions : trace[j].pass /= 2
        /\ (outcome = "panic" <=> Reports /= {})

\* C3's case: in Panic mode an error of pass 1 ended the run while both
\* streams still held records, and the duplicate-name validator was in use.
C3_Witness ==
    /\ lint_mode = "Panic"
    /\ r2_present
    /\ use_special_validator
    /\ outcome = "panic"
    /\ Reports = {Len(trace)}
    /\ trace[Len(trace)].path = R2Src
    /\ pos1 < Len(file1)
    /\ pos2 < Len(file2)
    /\ opens1 = 1

\* The validator calls a complete scan of the inputs makes: per record of a
\* single scan every active single-read validator; per pair every active
\* single-read validator on both reads and every active paired-read one;
\* per record of pass 2 the duplicate-name validator.
CompleteScanCalls ==
    IF r2_present
    THEN Len(file1) * (2 * Len(single_read_validators)
                       + Len(paired_read_validators))
         + (IF use_special_validator THEN Len(file1) ELSE 0)
    ELSE Len(file1) * Len(single_read_validators)

\* C4: in Log mode every error a validator call returns (single-read on
\* read 1, on read 2, paired-read, duplicate-name in pass 2) reaches the
\* reporter exactly once, a content error never stops or shortens the scan,
\* and a run without I/O or desync failure ends with success, status 0.
C4_LogReportsEveryErrorOnce ==
    lint_mode = "Log" =>
        /\ \A i \in FailedValidations :
              /\ i + 1 \in Reports
              /\ trace[i + 1].err = trace[i].err
              /\ trace[i + 1].res = "log"
        /\ \A i \in Reports : i - 1 \in FailedValidations
        /\ Cardinality(Reports) = Cardinality(FailedValidations)
        /\ outcome /= "panic"
        /\ pc = "done" =>
              /\ outcome \in {"ok", "fatal"}
              /\ outcome = "fatal" =>
                    \/ EndsWithIoError
                    \/ EndsWithReads("eof", "rec")
                    \/ EndsWithReads("rec", "eof")
              /\ outcome = "ok" =>
                    /\ exit_code = Some(0)
                    /\ Cardinality(Validations) = CompleteScanCalls
                    /\ pos1 = Len(file1)
                    /\ pos2 = Len(file2)

\* C4's case: a Log run that ended with success after logging an error of
\* each kind: single-read on read 1, on read 2, paired-read, duplicate-name.
C4_Witness ==
    /\ lint_mode = "Log"
    /\ outcome = "ok"
    /\ exit_code = Some(0)
    /\ \E i, j, k, l \in Reports :
          /\ trace[i].code = "S001" /\ trace[i].path = R1Src
          /\ trace[j].code = "S005" /\ trace[j].path = R2Src
          /\ trace[k].code = "P001"
          /\ trace[l].code = "S007"
    /\ Cardinality(Reports) >= 6

\* C5: with the duplicate-name validator's code in the disabled set, a
\* paired scan never inserts a name, pass 2 is skipped and the primary
\* source is never opened again: the run ends with success right after the
\* pass-1 loop exits with both streams at their end.
C5_DisabledSkipsPass2 ==
    (r2_present /\ "S007" \in disabled_validators) =>
        /\ Inserts = {}
        /\ NamesInserted = 0
        /\ opens1 <= 1
        /\ pc \notin {"pass2_open", "pass2"}
        /\ \A i \in Positions : trace[i].pass /= 2 /\ trace[i].code /= "S007"
        /\ \A i \in Positions :
              (/\ i + 1 <= Len(trace)
               /\ trace[i].op = "read" /\ trace[i].res = "eof"
               /\ trace[i + 1].op = "read" /\ trace[i + 1].res = "eof") =>
                  /\ i + 1 = Len(trace)
                  /\ pc = "done"
                  /\ outcome = "ok"
                  /\ exit_code = Some(0)

\* C5's case: a paired scan with the validator disabled went through two
\* pairs whose read-1 names are duplicates and ended with both streams at
\* their end.
C5_Witness ==
    /\ r2_present
    /\ "S007" \in disabled_validators
    /\ EndsWithReads("eof", "eof")
    /\ outcome = "ok"
    /\ record_counter = 2
    /\ Occurrences(1) = 2

\* C6, as claimed: duplicate-name detection also operates in single-stream
\* mode: with the validator not disabled, a single-stream scan inserts the
\* normalized name of every record read, and a pass 2 over the primary input
\* reports each record whose name count is greater than 1.
C6_SingleScanDetectsDuplicates ==
    (~r2_present /\ use_special_validator /\ outcome = "ok") =>
        /\ Cardinality(Inserts) = Len(file1)
        /\ NamesInserted = Len(file1)
        /\ lint_mode = "Log" =>
              { trace[i].rc : i \in DuplicateReports } =
                  DuplicatedAmong(Len(file1))

\* C6, amended: duplicate-name detection does not operate in single-stream
\* mode: whether or not the validator is disabled, a single-stream scan
\* inserts no name into the multiset, never calls the duplicate-name
\* validator, runs no pass 2 and opens the primary source once.
C6_SingleScanHasNoDuplicateDetection ==
    ~r2_present =>
        /\ Inserts = {}
        /\ NamesInserted = 0
        /\ DuplicateReports = {}
        /\ \A i \in Positions : trace[i].code /= "S007" /\ trace[i].pass /= 2
        /\ opens1 <= 1
        /\ pc \notin {"pass1", "pass2_open", "pass2"}

\* C6's case: a single-stream scan, the validator not disabled, went through
\* three records of which two share a normalized name, and ended with success.
C6_Witness ==
    /\ ~r2_present
    /\ use_special_validator
    /\ lint_mode = "Log"
    /\ outcome = "ok"
    /\ record_counter = 3
    /\ DuplicatedAmong(3) = {0, 2}

\* The 0-based index, within its pass, of the record of stream `on` that is
\* being processed at position i of the trace.
RecordIndexAt(i, on) ==
    Cardinality({ j \in 1..i : /\ trace[j].op = "read"
                               /\ trace[j].on = on
                               /\ trace[j].res = "rec"
                               /\ trace[j].pass = trace[i].pass }) - 1

\* The message the format prescribes for an error at a line.
FormatMessage(error, pathname, line) ==
    IF IsSome(error.col_no)
    THEN MessageHead(pathname, line) \o ToString(Unwrap(error.col_no)) \o ":"
         \o MessageTail(error)
    ELSE MessageHead(pathname, line) \o MessageTail(error)

\* C7: for every reported error, in both passes and both modes, the line
\* number of the diagnostic is record_counter * 4 + line_type_offset + 1,
\* record_counter being the 0-based index of the record within the current
\* pass and the offset 0, 1, 2, 3 for Name, Sequence, PlusLine, QualityScore.
C7_LineNumber ==
    \A i \in Reports :
        LET e == trace[i]
            error == Unwrap(e.err)
            index == RecordIndexAt(i, IF e.path = R2Src THEN "r2" ELSE "r1")
        IN  /\ e.rc = index
            /\ e.msg = FormatMessage(error, e.path,
                                     FormatLine(index, error.line_type))

\* C7's case: an error on the Sequence line of the record of index 2 has
\* been reported at line 10, and in pass 2 an error on a Name line at line 9.
C7_Witness ==
    /\ \E i \in Reports :
          /\ trace[i].rc = 2
          /\ Unwrap(trace[i].err).line_type = "Sequence"
          /\ trace[i].msg = "r1.fastq:10: [S005] ConsistentSeqQualValidator: Sequence and quality lengths differ"
    /\ \E i \in Reports :
          /\ trace[i].pass = 2
          /\ trace[i].msg = "r1.fastq:9: [S007] DuplicateNameValidator: Duplicate found"

RECURSIVE Repeat(_, _)
Repeat(sq, n) == IF n = 0 THEN << >> ELSE sq \o Repeat(sq, n - 1)

\* The codes of the validators called so far, in the order of the calls.
ValidationCodes ==
    LET calls == SelectSeq(trace, LAMBDA e : e.op = "validate")
    IN  [i \in 1..Len(calls) |-> calls[i].code]

\* The codes of the active single-read validators, in the order of the list
\* the registry filter returned.
ActiveSingleCodes ==
    [i \in 1..Len(single_read_validators) |-> single_read_validators[i].code]

\* C10: in a single-stream scan of N records in Log mode each active
\* single-read validator is invoked exactly N times, once per record and in
\* the order of the filter's list; an error is reported with the
\* record_counter of its record, and record_counter is incremented once per
\* record, so it is N when the scan ends.
C10_SingleScanCalls ==
    (~r2_present /\ lint_mode = "Log") =>
        /\ record_counter = pos1
        /\ ValidationCodes = Repeat(ActiveSingleCodes, record_counter)
        /\ \A i \in Validations :
              /\ trace[i].on = "r1"
              /\ trace[i].name =
                    NormalizedName(file1[RecordIndexAt(i, "r1") + 1].name)
        /\ \A i \in Reports :
              /\ trace[i].rc = RecordIndexAt(i, "r1")
              /\ trace[i].path = R1Src
              /\ trace[i].code = trace[i - 1].code
        /\ outcome = "ok" =>
              /\ record_counter = Len(file1)
              /\ \A k \in 1..Len(ActiveSingleCodes) :
                    Cardinality({ i \in Validations :
                        trace[i].code = ActiveSingleCodes[k] }) = Len(file1)

\* C10's case: a Log scan of three records with two active validators ended;
\* the second record failed both validators and the third the second one.
C10_Witness ==
    /\ ~r2_present
    /\ lint_mode = "Log"
    /\ outcome = "ok"
    /\ record_counter = 3
    /\ ValidationCodes = <<"S001", "S005", "S001", "S005", "S001", "S005">>
    /\ { <<trace[i].rc, trace[i].code>> : i \in Reports } =
          { <<1, "S001">>, <<1, "S005">>, <<2, "S005">> }

\* The validator calls of pass 1 so far, each as <<stream, code>>, in the
\* order of the calls.
Pass1Calls ==
    LET calls == SelectSeq(trace,
                           LAMBDA e : e.op = "validate" /\ e.pass = 1)
    IN  [i \in 1..Len(calls) |-> << calls[i].on, calls[i].code >>]

RECURSIVE Interleaved(_)
Interleaved(codes) ==
    IF codes = << >> THEN << >>
    ELSE << <<"r1", Head(codes)>>, <<"r2", Head(codes)>> >>
         \o Interleaved(Tail(codes))

\* The calls of one complete pass-1 iteration: each active single-read
\* validator on read 1 and then on read 2, validator after validator, then
\* each active paired-read validator on the pair.
CallsPerPair ==
    Interleaved(ActiveSingleCodes)
    \o [i \in 1..Len(paired_read_validators) |->
            << "pair", paired_read_validators[i].code >>]

IsPrefix(p, q) == Len(p) <= Len(q) /\ p = SubSeq(q, 1, Len(p))

\* The positions of the validator calls and reports of the pass-1 iteration
\* that processes pair k (from 0).
InPair(k) ==
    { i \in Positions : /\ trace[i].op \in {"validate", "report"}
                        /\ trace[i].pass = 1
                        /\ RecordIndexAt(i, "r1") = k }

\* C11, as claimed: in each iteration of the paired scan every active
\* single-read validator is run against read 1 before any single-read
\* validator is run against read 2, all single-read validators finish
\* before any paired-read validator runs, and so all errors of read 1 are
\* reported before any error of read 2 of the same pair.
C11_Read1BeforeRead2 ==
    r2_present =>
        \A k \in 0..(Len(file1) - 1) : \A i, j \in InPair(k) :
            /\ (/\ trace[i].op = "validate" /\ trace[i].on = "r1"
                /\ trace[j].op = "validate" /\ trace[j].on = "r2") => i < j
            /\ (/\ trace[i].op = "validate" /\ trace[i].on \in {"r1", "r2"}
                /\ trace[j].op = "validate" /\ trace[j].on = "pair") => i < j
            /\ (/\ trace[i].op = "report" /\ trace[i - 1].on = "r1"
                /\ trace[j].op = "report" /\ trace[j - 1].on = "r2") => i < j

\* C11, amended: in each iteration of the paired scan the active
\* single-read validators run in catalog order, each one against read 1 and
\* then against read 2 before the next validator runs; all single-read
\* validators finish before any paired-read validator runs.  An error is
\* reported right after the call that returned it, so one validator's error
\* on read 1 comes before the same validator's error on read 2, and in
\* Panic mode an error on read 1 pre-empts the read-2 errors of that
\* validator and of the later ones only.
C11_ValidatorByValidator ==
    r2_present =>
        /\ IsPrefix(Pass1Calls, Repeat(CallsPerPair, Len(file1)))
        /\ Len(Pass1Calls) >= record_counter * Len(CallsPerPair)
        /\ (lint_mode = "Log" \/ outcome /= "panic") =>
              Pass1Calls = Repeat(CallsPerPair,
                                  IF opens1 >= 2 THEN Len(file1)
                                  ELSE record_counter)
        /\ \A i \in Reports :
              /\ i - 1 \in FailedValidations
              /\ trace[i].code = trace[i - 1].code

\* C11's case: a Log run over a pair whose read 2 fails the first validator
\* and whose read 1 fails the second: the error of read 2 is reported first.
C11_Witness ==
    /\ r2_present
    /\ lint_mode = "Log"
    /\ Len(ActiveSingleCodes) = 2
    /\ \E i, j \in InPair(0) :
          /\ i < j
          /\ trace[i].op = "report" /\ trace[i].path = R2Src
          /\ trace[j].op = "report" /\ trace[j].path = R1Src
          /\ trace[j].code = "S005"
    /\ \E i \in InPair(0) : trace[i].op = "validate" /\ trace[i].on = "pair"

\* C12: in the paired scan every error is reported with the record_counter
\* of the pair (in pass 2: of the record) being processed; an error of a
\* single-read validator on read 1 carries stream 1's path, one on read 2
\* carries stream 2's path, an error of a paired-read validator carries
\* stream 1's path, and a duplicate-name error of pass 2 carries stream 1's
\* path.
C12_PairedReportAttribution ==
    r2_present =>
        \A i \in Reports :
            /\ i - 1 \in FailedValidations
            /\ trace[i].err = trace[i - 1].err
            /\ trace[i].pass = trace[i - 1].pass
            /\ trace[i].rc = RecordIndexAt(i, "r1")
            /\ trace[i].path = (IF trace[i - 1].on = "r2" THEN R2Src
                                ELSE R1Src)
            /\ trace[i].msg = build_error_message(Unwrap(trace[i].err),
                                                  trace[i].path,
                                                  trace[i].rc)
            /\ (trace[i].code = DuplicateCode) =>
                  trace[i].pass = 2 /\ trace[i].path = R1Src

\* C12's case: a Log run whose second pair has an error on read 2 and a
\* paired-read error, and whose second primary record is a duplicate.
C12_Witness ==
    /\ r2_present
    /\ \E i, j, k \in Reports :
          /\ trace[i].rc = 1 /\ trace[i - 1].on = "r2"
          /\ trace[j].rc = 1 /\ trace[j - 1].on = "pair"
          /\ trace[k].rc = 1 /\ trace[k].pass = 2
          /\ trace[k].code = DuplicateCode
    /\ \E i \in Reports : trace[i].pass = 1 /\ trace[i - 1].on = "r1"

\* The positions of the events of pass 2.
Pass2Events == { i \in Positions : trace[i].pass = 2 }

\* The positions of the reads of pass 2 that returned a record.
Pass2Records ==
    { i \in Pass2Events : trace[i].op = "read" /\ trace[i].res = "rec" }

\* C13: pass 2 of the paired scan starts only after the pass-1 loop exited
\* because both streams reported end of stream in the same iteration, never
\* after a desync or a read failure; it opens stream 1's source again from
\* the start, reads only stream 1, and counts records from 0 again, so a
\* duplicate at record index k of the primary file is reported with the
\* line number of record k's name line.
C13_Pass2AfterCleanPass1 ==
    r2_present =>
        /\ pc \in {"pass2_open", "pass2"} =>
              /\ pos1 = Len(file1) /\ pos2 = Len(file2)
              /\ Len(file1) = Len(file2)
              /\ use_special_validator
        /\ pc = "pass2_open" => EndsWithReads("eof", "eof")
        /\ pc = "pass2" => record_counter = pos /\ opens1 = 2
        /\ Pass2Events /= {} =>
              LET first == CHOOSE i \in Pass2Events :
                               \A j \in Pass2Events : i <= j
              IN  /\ trace[first].op = "open" /\ trace[first].on = "r1"
                  /\ first >= 3
                  /\ trace[first - 2].op = "read"
                  /\ trace[first - 2].on = "r1"
                  /\ trace[first - 2].res = "eof"
                  /\ trace[first - 1].op = "read"
                  /\ trace[first - 1].on = "r2"
                  /\ trace[first - 1].res = "eof"
                  /\ \A j \in 1..(first - 1) :
                        /\ trace[j].pass < 2
                        /\ trace[j].res /= "ioerr"
                        /\ ~DesyncAt(j, "eof", "rec")
                        /\ ~DesyncAt(j, "rec", "eof")
                  /\ \A j \in Pass2Events :
                        /\ j > first => trace[j].op /= "open"
                        /\ trace[j].on \notin {"r2", "pair"}
                        /\ trace[j].op /= "insert"
        /\ \A i \in Pass2Records :
              LET k == RecordIndexAt(i, "r1")
              IN  /\ k < Len(file1)
                  /\ trace[i].name = file1[k + 1].name
        /\ \A i \in Reports :
              trace[i].pass = 2 =>
                  LET k == RecordIndexAt(i, "r1")
                  IN  /\ trace[i].code = DuplicateCode
                      /\ trace[i].rc = k
                      /\ trace[i - 1].name = NormalizedName(file1[k + 1].name)
                      /\ trace[i].msg =
                            FormatMessage(Unwrap(trace[i].err), R1Src,
                                          FormatLine(k,
                                              Unwrap(trace[i].err).line_type))

\* C13's case: pass 2 reports the second primary record as a duplicate.
C13_Witness ==
    /\ r2_present
    /\ \E i \in Reports :
          /\ trace[i].pass = 2
          /\ trace[i].rc = 1
          /\ Unwrap(trace[i].err).line_type = "Name"
          /\ trace[i].msg = "r1.fastq:5: [S007] DuplicateNameValidator: "
                            \o Unwrap(trace[i].err).message

\* The stream whose record an event is about (a paired-read validator is
\* recorded with read 1's name).
StreamOf(e) == IF e.on = "pair" THEN "r1" ELSE e.on

\* The position of the last read of stream on before position j (0: none).
LastRead(j, on) ==
    SetMax({0} \union { i \in 1..(j - 1) : /\ trace[i].op = "read"
                                          /\ trace[i].on = on })

\* The positions of the latest iteration of a scan loop: from the last read
\* of stream 1 to the end of the trace.  Every iteration is the latest one
\* in the state its step leads to.
LatestIteration ==
    LET start == LastRead(Len(trace) + 1, "r1")
    IN  IF start = 0 THEN {} ELSE start..Len(trace)

\* The positions in S of the reads of stream on, and of its resets.
ReadsIn(S, on) == { i \in S : trace[i].op = "read" /\ trace[i].on = on }

ResetsIn(S, on) == { i \in S : trace[i].op = "reset" /\ trace[i].on = on }

\* The read at position i filled a record that its iteration goes on to
\* process: in pass 1 of a paired scan, its mate was read as well.
Processed(i) ==
    /\ trace[i].op = "read" /\ trace[i].res = "rec"
    /\ (r2_present /\ trace[i].pass = 1) =>
          IF trace[i].on = "r1"
          THEN trace[i + 1].op = "read" /\ trace[i + 1].res = "rec"
          ELSE trace[i - 1].res = "rec"

\* In the iteration at the positions S, stream on was read once; if the
\* iteration went on to process the record, the record was reset exactly
\* once, after the read and before every insert and validator call of the
\* iteration, to the normalized name; otherwise it was not reset.
ResetOnce(S, on) ==
    LET reads == ReadsIn(S, on)
        resets == ResetsIn(S, on)
    IN  /\ Cardinality(reads) = 1
        /\ \A i \in reads :
              IF Processed(i)
              THEN /\ Cardinality(resets) = 1
                   /\ \A m \in resets :
                         /\ i < m
                         /\ trace[m].name = NormalizedName(trace[i].name)
                         /\ \A j \in S :
                               trace[j].op \in {"insert", "validate"} => m < j
              ELSE resets = {}

\* C14: in every scan loop (single-stream, paired pass 1, paired pass 2)
\* reset is applied exactly once to each record the loop fills and goes on
\* to process, after the read and before the name is inserted into the
\* multiset or a validator sees the record; no record is validated or
\* inserted un-normalized, and none is normalized twice.
C14_ResetOncePerFill ==
    LET S == LatestIteration
    IN  /\ S = {} => \A j \in Positions : trace[j].op = "open"
        /\ S /= {} =>
              /\ ResetOnce(S, "r1")
              /\ ReadsIn(S, "r2") /= {} => ResetOnce(S, "r2")
              /\ ReadsIn(S, "r2") = {} => ResetsIn(S, "r2") = {}
              /\ \A j \in S :
                    trace[j].op \in {"insert", "validate"} =>
                        /\ \A i \in ReadsIn(S, StreamOf(trace[j])) :
                              /\ Processed(i)
                              /\ trace[j].name = NormalizedName(trace[i].name)
                        /\ ReadsIn(S, StreamOf(trace[j])) /= {}
                        /\ trace[j].on = "pair" =>
                              \A i \in ReadsIn(S, "r2") : Processed(i)

\* C14's case: all three loops have read a record whose name ends in a mate
\* marker and have shown it to a validator (and to the multiset) trimmed.
C14_Witness ==
    /\ \E j \in Positions :
          /\ trace[j].op = "validate" /\ trace[j].pass = 2
          /\ trace[LastRead(j, "r1")].name = <<"@", "A", " ", "1">>
          /\ trace[j].name = <<"@", "A">>
    /\ \E j \in Positions :
          /\ trace[j].op = "insert"
          /\ trace[LastRead(j, "r1")].name = <<"@", "A", "/", "1">>
          /\ trace[j].name = <<"@", "A">>
    /\ \E j \in Positions :
          /\ trace[j].op = "validate" /\ trace[j].on = "r2"
          /\ trace[LastRead(j, "r2")].name = <<"@", "B", "/", "2">>
          /\ trace[j].name = <<"@", "B">>

\* The positions of the reads of stream on in pass 1.
Pass1Reads(on) ==
    { i \in Positions : /\ trace[i].op = "read"
                        /\ trace[i].on = on
                        /\ trace[i].pass = 1 }

\* The number of records pass 1 has consumed from stream on.
Consumed(on) == Cardinality({ i \in Pass1Reads(on) : trace[i].res = "rec" })

\* C15: the paired scan advances both streams in lockstep: at the start of
\* every pass-1 iteration the number of records consumed from stream 1
\* equals the number consumed from stream 2 and equals record_counter;
\* within an iteration stream 2 is read only after stream 1 has been read
\* successfully, and no iteration reads one stream without attempting the
\* other unless the read of stream 1 itself failed.
C15_Lockstep ==
    r2_present =>
        /\ pc = "pass1" =>
              /\ pos1 = record_counter /\ pos2 = record_counter
              /\ Consumed("r1") = record_counter
              /\ Consumed("r2") = record_counter
        /\ \A j \in Pass1Reads("r2") :
              /\ j - 1 \in Pass1Reads("r1")
              /\ trace[j - 1].res /= "ioerr"
        /\ \A i \in Pass1Reads("r1") :
              IF trace[i].res = "ioerr"
              THEN i = Len(trace)
              ELSE i + 1 \in Pass1Reads("r2")
        /\ \A i \in Positions :
              (trace[i].op = "read" /\ trace[i].on = "r2") =>
                  trace[i].pass = 1
        /\ \A j \in Pass1Reads("r2") :
              LET k == RecordIndexAt(j, "r2")
              IN  /\ trace[j].res = "rec" =>
                        trace[j].name = file2[k + 1].name
                  /\ (trace[j].res = "rec" /\ trace[j - 1].res = "rec") =>
                        /\ trace[j - 1].name = file1[k + 1].name
                        /\ RecordIndexAt(j - 1, "r1") = k

\* C15's case: two pairs have gone through, and the third iteration starts
\* with both streams two records in.
C15_Witness ==
    /\ r2_present
    /\ pc = "pass1"
    /\ record_counter = 2
    /\ Consumed("r1") = 2 /\ Consumed("r2") = 2
    /\ pos1 < Len(file1)

\* The number of pass-1 iterations in which both streams returned a record.
CompletePairs ==
    Cardinality({ j \in Pass1Reads("r2") : /\ trace[j].res = "rec"
                                           /\ trace[j - 1].res = "rec" })

\* C16: the duplicate-name multiset is written only during pass 1 and only
\* with read-1 names: in a paired scan that uses the duplicate-name
\* validator each read-1 record of a complete pair is inserted exactly once
\* and no read-2 name is inserted; the validator's validate is never invoked
\* (and so reports nothing) during pass 1; pass 2 only invokes validate and
\* leaves the multiset as pass 1 built it.
C16_MultisetWrittenInPass1Only ==
    r2_present =>
        /\ LET inserted == Inserts
               index == [i \in inserted |-> RecordIndexAt(i, "r1")]
           IN  /\ \A i \in inserted :
                     /\ trace[i].pass = 1
                     /\ trace[i].on = "r1"
                     /\ trace[i].name =
                           NormalizedName(file1[index[i] + 1].name)
                     /\ LastRead(i, "r2") = LastRead(i, "r1") + 1
                     /\ \A j \in inserted : index[j] = index[i] => j = i
               /\ Cardinality(inserted) =
                     (IF use_special_validator THEN CompletePairs ELSE 0)
               /\ DOMAIN names = { trace[i].name : i \in inserted }
               /\ \A n \in DOMAIN names :
                     names[n] = Cardinality({ i \in inserted :
                                                 trace[i].name = n })
        /\ \A i \in Positions :
              /\ (trace[i].pass = 1 /\ trace[i].op \in {"validate", "report"})
                    => trace[i].code /= DuplicateCode
              /\ (trace[i].pass = 2 /\ trace[i].op \in {"validate", "report"})
                    => trace[i].code = DuplicateCode
        /\ pc = "pass2" =>
              \A n \in DOMAIN names :
                  names[n] = Cardinality({ k \in 1..Len(file1) :
                                 NormalizedName(file1[k].name) = n })

\* C16's case: pass 2 is over; pass 1 inserted three read-1 names, two of
\* them equal, and none of them is the name of a read-2 record.
C16_Witness ==
    /\ r2_present
    /\ outcome = "ok" /\ opens1 = 2
    /\ Cardinality(Inserts) = 3
    /\ \E n \in DOMAIN names : names[n] = 2
    /\ \E k \in 1..Len(file1) :
          NormalizedName(file1[k].name) /= NormalizedName(file2[k].name)
    /\ \E i \in Positions : trace[i].pass = 2 /\ trace[i].op = "validate"

\* The last event of the run.
LastEvent == trace[Len(trace)]

\* The run is in exactly one of the three terminal outcomes, with its status.
TerminalOutcome ==
    \/ /\ outcome = "ok" /\ exit_code = Some(0)
       /\ LastEvent.op = "read" /\ LastEvent.res = "eof"
    \/ /\ outcome = "fatal" /\ exit_code = Some(1)
       /\ \/ EndsWithIoError
          \/ EndsWithReads("eof", "rec")
          \/ EndsWithReads("rec", "eof")
    \/ /\ outcome = "panic" /\ exit_code = Some(1)
       /\ lint_mode = "Panic"
       /\ LastEvent.op = "report" /\ LastEvent.res = "stderr"

\* The positions of the reads of stream on in pass p: one per iteration of
\* the loop of that pass.
ReadsOf(on, p) ==
    { i \in Positions : /\ trace[i].op = "read"
                        /\ trace[i].on = on
                        /\ trace[i].pass = p }

\* Every read of a loop but its last returned the stream's next record, so
\* the loop has run at most one iteration more than the stream has records.
LoopBounded(on, p, file, position) ==
    LET reads == ReadsOf(on, p)
    IN  /\ position = Cardinality({ i \in reads : trace[i].res = "rec" })
        /\ position <= Len(file)
        /\ Cardinality(reads) <= Len(file) + 1
        /\ \A i \in reads :
              trace[i].res /= "rec" => \A j \in reads : j <= i

LoopsBounded ==
    /\ LoopBounded("r1", 1, file1, pos1)
    /\ LoopBounded("r2", 1, file2, pos2)
    /\ LoopBounded("r1", 2, file1, pos)
    /\ ReadsOf("r2", 2) = {}
    /\ opens1 <= 2
    /\ record_counter <= Len(file1)

\* A run that has not ended can go on: a loop whose streams have a record
\* left iterates, and the other steps (the start, the loop exits at the end
\* of a stream, the opening of pass 2) are possible and change the state.
NotStuck ==
    \/ pc = "single" /\ read_record(file1, pos1).len /= 0
    \/ pc = "pass2" /\ read_record(file1, pos).len /= 0
    \/ /\ pc = "pass1"
       /\ pair_lengths(read_record(file1, pos1).len,
                       read_record(file2, pos2).len).kind = "continue"
    \/ ENABLED << Lint \/ ValidateSingleEnd
                  \/ ValidatePairDesync \/ ValidatePairEnd
                  \/ Pass2Open \/ Pass2End >>_vars

\* C17: for any finite input streams and any configuration a lint run
\* terminates, in exactly one of the terminal outcomes success (status 0),
\* fatal I/O or desync error (non-zero status) and Panic-mode content error
\* (non-zero status).  Every step of a run opens a source or reads a
\* stream; every loop iteration that goes on consumes one record of every
\* stream it reads, so each loop runs at most one iteration more than its
\* streams have records; a run that has not ended is never stuck, and one
\* that has ended takes no further step.
C17_Terminates ==
    /\ LoopsBounded
    /\ (pc = "done") <=> (outcome /= "running")
    /\ IF pc = "done"
       THEN TerminalOutcome /\ ~ENABLED << Next >>_vars
       ELSE exit_code = None /\ NotStuck

\* C17's case: a paired scan of three pairs has gone through both passes
\* and ended with success.
C17_Witness ==
    /\ pc = "done" /\ outcome = "ok" /\ exit_code = Some(0)
    /\ r2_present /\ opens1 = 2
    /\ pos1 = 3 /\ pos2 = 3 /\ pos = 3
    /\ Cardinality(ReadsOf("r1", 2)) = 4

\* The errors the active validators return on pair k (from 1) of the two
\* files.
ErrorsOfPair(k) ==
    LET r == reset(file1[k])
        s == reset(file2[k])
    IN  Cardinality({ i \in 1..Len(single_read_validators) :
            IsSome(validate_single_read(single_read_validators[i], r)) })
        + Cardinality({ i \in 1..Len(single_read_validators) :
            IsSome(validate_single_read(single_read_validators[i], s)) })
        + Cardinality({ i \in 1..Len(paired_read_validators) :
            IsSome(validate_paired_read(paired_read_validators[i], r, s)) })

\* C18: in a paired scan in Log mode over streams of N1 and N2 records with
\* N1 /= N2, a run in which no read fails ends with the fatal desync error,
\* and by then all min(N1, N2) complete pairs have been fully validated
\* (every active single-read validator on both reads, every active
\* paired-read validator on the pair) and each of their errors has been
\* reported; record_counter is min(N1, N2) when the run aborts.
C18_PairsBeforeDesyncValidated ==
    (r2_present /\ lint_mode = "Log" /\ Len(file1) /= Len(file2)) =>
        /\ outcome \notin {"ok", "panic"}
        /\ opens1 <= 1
        /\ (pc = "done" /\ ~EndsWithIoError) =>
              LET n == Smaller(Len(file1), Len(file2))
              IN  /\ outcome = "fatal"
                  /\ IF Len(file1) < Len(file2)
                     THEN /\ EndsWithReads("eof", "rec")
                          /\ fatal_msg = R1Src \o " unexpectedly ended before "
                                         \o R2Src
                     ELSE /\ EndsWithReads("rec", "eof")
                          /\ fatal_msg = R2Src \o " unexpectedly ended before "
                                         \o R1Src
                  /\ record_counter = n
                  /\ CompletePairs = n
                  /\ Pass1Calls = Repeat(CallsPerPair, n)
                  /\ \A k \in 0..(n - 1) :
                        /\ Cardinality({ i \in InPair(k) :
                               trace[i].op = "report" }) = ErrorsOfPair(k + 1)
                        /\ \A i \in InPair(k) :
                               /\ i < Len(trace) - 1
                               /\ trace[i].op = "report" =>
                                      /\ trace[i].res = "log"
                                      /\ trace[i].rc = k
                  /\ \A i \in Validations \cup Reports : i < Len(trace) - 1
                  /\ Cardinality(Reports) = Cardinality(FailedValidations)

\* C18's case: three records against two; both complete pairs had errors,
\* which were logged before the run aborted on the third read.
C18_Witness ==
    /\ r2_present /\ lint_mode = "Log"
    /\ Len(file1) = 3 /\ Len(file2) = 2
    /\ pc = "done" /\ outcome = "fatal"
    /\ EndsWithReads("rec", "eof")
    /\ record_counter = 2
    /\ ErrorsOfPair(1) > 0
    /\ ErrorsOfPair(2) > 1
    /\ Cardinality(Reports) = ErrorsOfPair(1) + ErrorsOfPair(2)

\* The lines of a record, in the order they have in the file.
LineOrder == << "Name", "Sequence", "PlusLine", "QualityScore" >>

\* The place (from 1) of a line type among the lines of a record.
PlaceOf(line_type) == CHOOSE i \in 1..4 : LineOrder[i] = line_type

\* C19: the line number computed for an error is at least 1 and identifies
\* the source line uniquely within a pass: two errors with different
\* (record_counter, line_type) pairs receive different line numbers, and
\* for one record the four line types map to four consecutive line numbers
\* in the order Name, Sequence, PlusLine, QualityScore.
C19_LineNumberIdentifiesLine ==
    pc = "fn_done" =>
        LET c1 == arg[1].counter
            c2 == arg[2].counter
            t1 == arg[1].error.line_type
            t2 == arg[2].error.line_type
        IN  /\ ret[1] >= 1 /\ ret[2] >= 1
            /\ (<< c1, t1 >> /= << c2, t2 >>) <=> (ret[1] /= ret[2])
            /\ c1 = c2 => ret[2] - ret[1] = PlaceOf(t2) - PlaceOf(t1)
            /\ c1 < c2 => ret[1] < ret[2]
            /\ ret[1] - PlaceOf(t1) = 4 * c1

\* C19's case: the quality line of one record and the name line of the
\* next record get adjacent, different line numbers.
C19_Witness ==
    /\ pc = "fn_done"
    /\ arg[1].error.line_type = "QualityScore"
    /\ arg[2].error.line_type = "Name"
    /\ arg[2].counter = arg[1].counter + 1
    /\ arg[1].counter > 0
    /\ ret[2] = ret[1] + 1

====
